---- MODULE Spec2Model ----
(***************************************************************************)
(* vault-init (AWS Secrets Manager / Raft variant): the status check loop  *)
(* of src/main.go.  One vault-init process runs beside each Vault server   *)
(* of a StatefulSet; all of them share one Secrets Manager secret.         *)
(*                                                                         *)
(* Strings are sequences of character codes.  A remote call and the local  *)
(* code that follows it up to the next remote call form one step.          *)
(***************************************************************************)
EXTENDS Integers, Sequences, FiniteSets, TLC

(***************************************************************************)
(* Bounds of the model                                                     *)
(***************************************************************************)
\* failed UpdateSecret attempts followed within one initialize() call
MaxPutFail == 2

\* longest value of a raft_leader_* TLS option tried
MaxRawLen == 2

(***************************************************************************)
(* Program constants                                                       *)
(***************************************************************************)
\* viper default vault_secret_shares
SecretShares == 5
\* viper default vault_secret_threshold
SecretThreshold == 3
\* the literal 48 subtracted from the hostname's last byte ('0')
ZeroChar == 48
\* '@', the marker parseEnvFile looks for
AtChar == 64

(***************************************************************************)
(* The replica set.  Two replicas are observed: the first pod of the       *)
(* StatefulSet and one other pod (the remaining pods take no step).        *)
(***************************************************************************)
Procs == {"a", "b"}

\* "vault-"
HostPrefix == <<118, 97, 117, 108, 116, 45>>

RECURSIVE Itoa(_)
\* decimal rendering of a pod ordinal, as the StatefulSet controller names pods
Itoa(n) == IF n < 10 THEN <<ZeroChar + n>> ELSE Itoa(n \div 10) \o <<ZeroChar + (n % 10)>>

PodName(ordinal) == HostPrefix \o Itoa(ordinal)

\* pod ordinals the second observed replica may have
OtherOrdinals == {1, 10}

\* HOSTNAME values of the second observed replica; <<>> is an unset HOSTNAME
OtherHostnames == {PodName(o) : o \in OtherOrdinals} \cup {<<>>}

(***************************************************************************)
(* api.InitResponse and its JSON form                                      *)
(***************************************************************************)
\* opaque strings generated by the server of cluster c
KeyHex(c, i) == <<1, c, i>>
KeyB64(c, i) == <<2, c, i>>
RootToken(c) == <<3, c>>

\* what Vault's init returns for the cluster founded by pod ordinal c
NewInitResponse(c, shares) ==
    [Keys            |-> [i \in 1..shares |-> KeyHex(c, i)],
     KeysB64         |-> [i \in 1..shares |-> KeyB64(c, i)],
     RecoveryKeys    |-> <<>>,
     RecoveryKeysB64 |-> <<>>,
     RootToken       |-> RootToken(c)]

ZeroInitResponse ==
    [Keys |-> <<>>, KeysB64 |-> <<>>, RecoveryKeys |-> <<>>,
     RecoveryKeysB64 |-> <<>>, RootToken |-> <<>>]

\* JSON values: null, an array of strings, or a string (items = <<s>>)
JNull == [kind |-> "null", items |-> <<>>]
JArray(strs) == [kind |-> "array", items |-> strs]
JString(s) == [kind |-> "string", items |-> <<s>>]
JMember(name, value) == [name |-> name, value |-> value]

\* encoding/json renders a nil slice as null, a slice as an array
JSlice(strs) == IF strs = <<>> THEN JNull ELSE JArray(strs)

\* json.Marshal(&initResponse): the members in struct field order, under the
\* json tags of api.InitResponse; it cannot fail for a struct of strings
Marshal(resp) ==
    [kind |-> "json",
     members |-> << JMember("keys", JSlice(resp.Keys)),
                    JMember("keys_base64", JSlice(resp.KeysB64)),
                    JMember("recovery_keys", JSlice(resp.RecoveryKeys)),
                    JMember("recovery_keys_base64", JSlice(resp.RecoveryKeysB64)),
                    JMember("root_token", JString(resp.RootToken)) >>]

\* secret values that are no output of Marshal: no value stored yet, a string
\* that is not JSON, the JSON object {}, and a binary value (SecretString nil)
NoValue == [kind |-> "none", members |-> <<>>]
NotJson == [kind |-> "text", members |-> <<>>]
EmptyObject == [kind |-> "json", members |-> <<>>]
Binary == [kind |-> "binary", members |-> <<>>]

SliceFields == [keys |-> "Keys", keys_base64 |-> "KeysB64",
                recovery_keys |-> "RecoveryKeys",
                recovery_keys_base64 |-> "RecoveryKeysB64"]

\* json.Unmarshal of one object member into the struct: null leaves the field,
\* an unknown name is skipped, a value of the wrong JSON type is an error
DecodeMember(acc, m) ==
    IF ~acc.ok \/ m.value.kind = "null" THEN acc
    ELSE IF m.name \in DOMAIN SliceFields
         THEN IF m.value.kind = "array"
              THEN [acc EXCEPT !.resp = [@ EXCEPT ![SliceFields[m.name]] = m.value.items]]
              ELSE [acc EXCEPT !.ok = FALSE]
    ELSE IF m.name = "root_token"
         THEN IF m.value.kind = "string"
              THEN [acc EXCEPT !.resp = [@ EXCEPT !.RootToken = m.value.items[1]]]
              ELSE [acc EXCEPT !.ok = FALSE]
    ELSE acc

RECURSIVE DecodeMembers(_, _)
DecodeMembers(acc, ms) ==
    IF ms = <<>> THEN acc ELSE DecodeMembers(DecodeMember(acc, Head(ms)), Tail(ms))

\* json.Unmarshal([]byte(*secret.SecretString), &initResponse)
Unmarshal(text) ==
    IF text.kind # "json" THEN [ok |-> FALSE, resp |-> ZeroInitResponse]
    ELSE DecodeMembers([ok |-> TRUE, resp |-> ZeroInitResponse], text.members)

(***************************************************************************)
(* Process configuration: the environment every pod of the set shares      *)
(***************************************************************************)
\* file system seen by parseEnvFile: the file "f" holds "c", the file "h" holds
\* "d", no other file exists
FileExists(path) == path \in {<<102>>, <<104>>}
FileContents(path) == IF path = <<102>> THEN <<99>> ELSE <<100>>

\* values of RAFT_LEADER_CA_CERT, RAFT_LEADER_CLIENT_CERT, RAFT_LEADER_CLIENT_KEY:
\* "@f" with "k" and "", or "@g" with "" and ""
TlsConfigs == { << <<AtChar, 102>>, <<107>>, <<>> >>,
                << <<AtChar, 103>>, <<>>, <<>> >> }

\* the marker stripped and the path returned, the file never read
parseEnvFilePathOnly(raw) ==
    IF Len(raw) = 0 \/ raw[1] # AtChar
    THEN [panic |-> FALSE, value |-> raw]
    ELSE [panic |-> FALSE, value |-> Tail(raw)]

\* Returns file contents if raw string is in format `@<file-path>`; a file
\* that cannot be read is a panic
parseEnvFile(raw) ==
    IF Len(raw) = 0 \/ raw[1] # AtChar
    THEN [panic |-> FALSE, value |-> raw]
    ELSE IF FileExists(Tail(raw))
         THEN [panic |-> FALSE, value |-> FileContents(Tail(raw))]
         ELSE [panic |-> TRUE, value |-> <<>>]

\* IAM permissions of the pods' role on the secret: all three actions of the
\* example policy, or one of them missing
PermProfiles ==
    { [describe |-> TRUE,  get |-> TRUE,  put |-> TRUE],
      [describe |-> FALSE, get |-> TRUE,  put |-> TRUE],
      [describe |-> TRUE,  get |-> FALSE, put |-> TRUE],
      [describe |-> TRUE,  get |-> TRUE,  put |-> FALSE] }

(***************************************************************************)
(* The Vault server beside each process, seen through the calls made to it *)
(***************************************************************************)
\* number of the Vault server beside process p; it tags the keys it generates
ServerOf(p) == IF p = "a" THEN 1 ELSE 2

\* RAFT_LEADER_API_ADDR names the first pod of the set
LeaderProc == "a"

Uninitialized == [initialized |-> FALSE, sealed |-> TRUE, cluster |-> 0, parts |-> {}]
SealedIn(c) == [initialized |-> TRUE, sealed |-> TRUE, cluster |-> c, parts |-> {}]

\* the key bytes a share string decodes to (hex and base64 forms alike)
IsShare(k) == Len(k) = 3 /\ k[1] \in {1, 2}
ShareBytes(k) == <<k[2], k[3]>>
ValidShares(c) == {<<c, i>> : i \in 1..SecretShares}

\* sys/init: a server initializes once
VaultInit(v, c) ==
    IF v.initialized
    THEN [err |-> TRUE, vault |-> v, resp |-> ZeroInitResponse]
    ELSE [err |-> FALSE, vault |-> SealedIn(c), resp |-> NewInitResponse(c, SecretShares)]

\* sys/unseal with one share: progress counts the distinct shares held, and is
\* 0 again once the threshold is met and the server is unsealed
VaultUnseal(v, k) ==
    IF ~v.initialized \/ ~IsShare(k)
    THEN [err |-> TRUE, vault |-> v, progress |-> 0]
    ELSE IF ~v.sealed
    THEN [err |-> FALSE, vault |-> v, progress |-> 0]
    ELSE LET parts == v.parts \cup {ShareBytes(k)}
         IN  IF Cardinality(parts) < SecretThreshold
             THEN [err |-> FALSE, vault |-> [v EXCEPT !.parts = parts],
                   progress |-> Cardinality(parts)]
             ELSE IF parts \subseteq ValidShares(v.cluster)
             THEN [err |-> FALSE, vault |-> [v EXCEPT !.sealed = FALSE, !.parts = {}],
                   progress |-> 0]
             ELSE [err |-> TRUE, vault |-> [v EXCEPT !.parts = {}], progress |-> 0]

(***************************************************************************)
(* State                                                                   *)
(***************************************************************************)
VARIABLES
    hostname,      \* os.Getenv("HOSTNAME") of each process
    perms,         \* the role's permissions on the secret
    tlsOpts,       \* the three raft_leader_* TLS options
    vault,         \* the Vault server beside each process
    secret,        \* the value of the Secrets Manager secret
    pc,            \* where each process is in main / checkVaultStatus
    healthResponse,\* the snapshot checkVaultStatus read in this cycle
    secretString,  \* initialize: the marshalled init response being uploaded
    unsealKeys,    \* unseal: the key shares ranged over, from the decoded secret
    shard,         \* unseal: index of the next share to submit
    calls,         \* the remote calls of the current (or last) cycle, in order
    outcome,       \* what the last finished cycle returned to main
    initializers,  \* processes that ever issued the init call
    firstPut,      \* the value of the first successful UpdateSecret
    stored         \* the init responses uploaded so far, each with the string uploaded

vars == <<hostname, perms, tlsOpts, vault, secret, pc, healthResponse, secretString,
          unsealKeys, shard, calls, outcome, initializers, firstPut, stored>>

history == <<initializers, firstPut, stored>>

config == <<hostname, perms, tlsOpts>>

\* one remote call: its operation, how it ended, the strings sent, the secret
\* value sent or received, the progress an unseal reported and the init response received
Call(op, res, strs, val, n, resp) ==
    [op |-> op, res |-> res, strs |-> strs, val |-> val, n |-> n, resp |-> resp]
Plain(op, res) == Call(op, res, <<>>, [kind |-> "none", members |-> <<>>], 0, ZeroInitResponse)

NoSnapshot == [initialized |-> FALSE, sealed |-> FALSE, taken |-> FALSE]

(***************************************************************************)
(* Decisions of checkVaultStatus                                           *)
(***************************************************************************)
\* if healthResponse.Initialized && !healthResponse.Sealed
NothingToDo(h) == h.initialized /\ ~h.sealed

\* the last byte taken as the ordinal, '0' not subtracted
ReplicaRawByte(host) == host[Len(host)]

\* replica = int(hostname[len(hostname)-1]) - 48
Replica(host) == host[Len(host)] - ZeroChar

\* unseal as an alternative to the bootstrap step: only for a snapshot that
\* was initialized already
AfterBootstrapInitializedOnly(h) == IF h.initialized /\ h.sealed THEN "get" ELSE "done"

\* the test of the sealed flag inverted
AfterBootstrapInverted(h) == IF ~h.sealed THEN "get" ELSE "done"

\* if healthResponse.Sealed { unseal }: the step after a finished bootstrap step
AfterBootstrap(h) == IF h.sealed THEN "get" ELSE "done"

\* no early return, and unseal for every initialized server
AfterHealthUnsealInitialized(host, h) ==
    IF ~h.initialized
    THEN IF Len(host) = 0 THEN "crashed"
         ELSE IF Replica(host) = 0 THEN "init" ELSE "join"
    ELSE "get"

\* the step after a successful health read
AfterHealth(host, h) ==
    IF NothingToDo(h) THEN "done"
    ELSE IF ~h.initialized
         THEN IF Len(host) = 0 THEN "crashed"
              ELSE IF Replica(host) = 0 THEN "init" ELSE "join"
    ELSE AfterBootstrap(h)

\* the error of the startup check dropped
AfterCheckIgnoringError(ok) == "loop"

\* main: if err = checkSecretExistence(ctx); err != nil { log.Fatalf }
AfterCheck(ok) == IF ok THEN "loop" ELSE "exited"

\* only the call's error looked at, res.Joined not
JoinErrorTransportOnly(r) == r.err

\* joinRaftCluster: a transport error, or a response that says not joined
JoinError(r) == r.err \/ ~r.joined

\* the hex keys ranged over
UnsealSharesHex(resp) == resp.Keys

\* for i, key := range initResponse.KeysB64
UnsealShares(resp) == resp.KeysB64

\* the loop left one response late
UnsealDoneBelowZero(progress) == progress < 0

\* if status.Progress <= 0 { break }
UnsealDone(progress) == progress <= 0

\* the init response a cycle received
InitResponseOf(log) ==
    LET i == CHOOSE i \in DOMAIN log : log[i].op = "Initialize"
    IN  log[i].resp

FailedPuts(log) == Cardinality({i \in DOMAIN log : log[i].op = "UpdateSecret" /\ log[i].res = "error"})

(***************************************************************************)
(* Initial states                                                          *)
(***************************************************************************)
\* the secret exists before the processes start; it holds no value, a value
\* nobody marshalled, or the bundle an earlier run of the first pod stored
InitialSecrets == {NoValue, NotJson, EmptyObject, Binary,
                   Marshal(NewInitResponse(ServerOf(LeaderProc), SecretShares))}

Init ==
    /\ hostname \in {[p \in Procs |-> IF p = "a" THEN PodName(0) ELSE h] : h \in OtherHostnames}
    /\ perms \in PermProfiles
    /\ tlsOpts \in TlsConfigs
    /\ vault \in {[p \in Procs |-> IF p = "a" THEN v ELSE Uninitialized] :
                     v \in {Uninitialized, SealedIn(ServerOf("a"))}}
    /\ secret \in InitialSecrets
    /\ (secret.kind = "json" /\ secret # EmptyObject) => vault[LeaderProc].initialized
    /\ pc = [p \in Procs |-> "start"]
    /\ healthResponse = [p \in Procs |-> NoSnapshot]
    /\ secretString = [p \in Procs |-> NoValue]
    /\ unsealKeys = [p \in Procs |-> <<>>]
    /\ shard = [p \in Procs |-> 0]
    /\ calls = [p \in Procs |-> <<>>]
    /\ outcome = [p \in Procs |-> "none"]
    /\ initializers = {}
    /\ firstPut = NoValue
    /\ stored = {}

(***************************************************************************)
(* Steps                                                                   *)
(***************************************************************************)
\* the error of a cycle handled like the error of the startup check
AfterCycleErrorFatal == "exited"

\* main: if err := checkVaultStatus(ctx); err != nil { slog.Error }
AfterCycleError == "loop"

\* checkVaultStatus returns res to main, which logs an error and waits for the tick
Finish(p, res) ==
    /\ pc' = [pc EXCEPT ![p] = IF res = "err" THEN AfterCycleError ELSE "loop"]
    /\ outcome' = [outcome EXCEPT ![p] = res]

Continue(p, next) ==
    IF next = "done" THEN Finish(p, "ok")
    ELSE /\ pc' = [pc EXCEPT ![p] = next]
         /\ outcome' = [outcome EXCEPT ![p] = "none"]

\* a panic unwinds main
Crash(p) ==
    /\ pc' = [pc EXCEPT ![p] = "crashed"]
    /\ outcome' = [outcome EXCEPT ![p] = "none"]

\* main: checkSecretExistence, log.Fatalf on error
CheckSecretExistence(p) ==
    /\ pc[p] = "start"
    /\ \E ok \in (IF perms.describe THEN BOOLEAN ELSE {FALSE}) :
          /\ pc' = [pc EXCEPT ![p] = AfterCheck(ok)]
          /\ calls' = [calls EXCEPT ![p] = <<Plain("DescribeSecret", IF ok THEN "ok" ELSE "error")>>]
    /\ UNCHANGED <<config, vault, secret, healthResponse, secretString, unsealKeys,
                   shard, outcome, history>>

\* checkVaultStatus up to the first call after the health read
Health(p) ==
    /\ pc[p] = "loop"
    /\ \E ok \in BOOLEAN :
          IF ok
          THEN LET h == [initialized |-> vault[p].initialized,
                         sealed |-> vault[p].sealed, taken |-> TRUE]
                   next == AfterHealth(hostname[p], h)
               IN  /\ healthResponse' = [healthResponse EXCEPT ![p] = h]
                   /\ calls' = [calls EXCEPT ![p] = <<Plain("Health", "ok")>>]
                   /\ IF next = "crashed" THEN Crash(p) ELSE Continue(p, next)
          ELSE /\ healthResponse' = [healthResponse EXCEPT ![p] = NoSnapshot]
               /\ calls' = [calls EXCEPT ![p] = <<Plain("Health", "error")>>]
               /\ Finish(p, "err")
    /\ UNCHANGED <<config, vault, secret, secretString, unsealKeys, shard,
                   history>>

\* the error of the init call dropped
InitFailedNever(ok, r) == FALSE

\* initialize: if err != nil { return fmt.Errorf("initializing Vault: %w", err) }
InitFailed(ok, r) == ~ok \/ r.err

\* a failed upload gives the whole step up
AfterPutFailureReturns == "loop"

\* a failed upload starts the whole step again, init call included
AfterPutFailureReinitializes == "init"

\* initialize: a failed UpdateSecret is logged and, after the sleep, tried again
AfterPutFailure == "put"

\* initialize: the init call and json.Marshal of its response
Initialize(p) ==
    /\ pc[p] = "init"
    /\ \E ok \in BOOLEAN :
          LET r    == VaultInit(vault[p], ServerOf(p))
              done == ok /\ ~r.err
              resp == IF done THEN r.resp ELSE ZeroInitResponse
          IN  IF ~InitFailed(ok, r)
              THEN /\ vault' = [vault EXCEPT ![p] = IF done THEN r.vault ELSE @]
                   /\ secretString' = [secretString EXCEPT ![p] = Marshal(resp)]
                   /\ calls' = [calls EXCEPT ![p] =
                         Append(@, Call("Initialize", IF done THEN "ok" ELSE "error",
                                        <<>>, NoValue, 0, resp))]
                   /\ Continue(p, "put")
              ELSE /\ calls' = [calls EXCEPT ![p] = Append(@, Plain("Initialize", "error"))]
                   /\ Finish(p, "err")
                   /\ UNCHANGED <<vault, secretString>>
    /\ initializers' = initializers \cup {p}
    /\ UNCHANGED <<config, secret, healthResponse, unsealKeys, shard, firstPut, stored>>

\* initialize: one pass of the UpdateSecret loop
UpdateSecret(p) ==
    /\ pc[p] = "put"
    /\ \E ok \in (IF perms.put THEN BOOLEAN ELSE {FALSE}) :
          IF ok
          THEN /\ secret' = secretString[p]
               /\ firstPut' = IF firstPut = NoValue THEN secretString[p] ELSE firstPut
               /\ stored' = stored \cup {[resp |-> InitResponseOf(calls[p]), text |-> secretString[p]]}
               /\ calls' = [calls EXCEPT ![p] =
                     Append(@, Call("UpdateSecret", "ok", <<>>, secretString[p], 0, ZeroInitResponse))]
               /\ secretString' = [secretString EXCEPT ![p] = NoValue]
               /\ Continue(p, AfterBootstrap(healthResponse[p]))
          ELSE /\ FailedPuts(calls[p]) < MaxPutFail
               /\ calls' = [calls EXCEPT ![p] =
                     Append(@, Call("UpdateSecret", "error", <<>>, secretString[p], 0, ZeroInitResponse))]
               /\ IF AfterPutFailure = "loop" THEN Finish(p, "err")
                  ELSE /\ pc' = [pc EXCEPT ![p] = AfterPutFailure]
                       /\ UNCHANGED outcome
               /\ UNCHANGED <<secret, firstPut, stored, secretString>>
    /\ UNCHANGED <<config, vault, healthResponse, unsealKeys, shard, initializers>>

\* the leader answers a join only while it is initialized and unsealed, and a
\* server joins only while it is not part of a cluster
CanJoin(p) ==
    /\ p # LeaderProc
    /\ vault[LeaderProc].initialized /\ ~vault[LeaderProc].sealed
    /\ ~vault[p].initialized

\* what the join call can return: a transport error, not joined, or joined
JoinResponses(p) ==
    {[err |-> TRUE, joined |-> FALSE], [err |-> FALSE, joined |-> FALSE]}
      \cup (IF CanJoin(p) THEN {[err |-> FALSE, joined |-> TRUE]} ELSE {})

JoinResult(r) == IF r.err THEN "error" ELSE IF r.joined THEN "ok" ELSE "notJoined"

\* joinRaftCluster: the three parseEnvFile calls and the join call
JoinCluster(p) ==
    /\ pc[p] = "join"
    /\ LET ca   == parseEnvFile(tlsOpts[1])
           cert == parseEnvFile(tlsOpts[2])
           key  == parseEnvFile(tlsOpts[3])
           sent == <<ca.value, cert.value, key.value>>
       IN  IF ca.panic \/ cert.panic \/ key.panic
           THEN Crash(p) /\ UNCHANGED <<vault, calls>>
           ELSE \E r \in JoinResponses(p) :
                   /\ calls' = [calls EXCEPT ![p] =
                         Append(@, Call("JoinCluster", JoinResult(r), sent, NoValue, 0, ZeroInitResponse))]
                   /\ vault' = [vault EXCEPT ![p] =
                         IF ~r.err /\ r.joined THEN SealedIn(vault[LeaderProc].cluster) ELSE @]
                   /\ IF JoinError(r)
                      THEN Finish(p, "err")
                      ELSE Continue(p, AfterBootstrap(healthResponse[p]))
    /\ UNCHANGED <<config, secret, healthResponse, secretString, unsealKeys, shard,
                   history>>

\* unseal: GetSecretValue and json.Unmarshal of the secret string
GetSecretValue(p) ==
    /\ pc[p] = "get"
    /\ \E ok \in (IF perms.get /\ secret.kind # "none" THEN BOOLEAN ELSE {FALSE}) :
          IF ~ok
          THEN /\ calls' = [calls EXCEPT ![p] = Append(@, Plain("GetSecretValue", "error"))]
               /\ Finish(p, "err")
               /\ UNCHANGED <<unsealKeys, shard>>
          ELSE LET d == Unmarshal(secret)
               IN  /\ calls' = [calls EXCEPT ![p] =
                         Append(@, Call("GetSecretValue", "ok", <<>>, secret, 0, ZeroInitResponse))]
                   /\ IF secret.kind = "binary"
                      THEN Crash(p) /\ UNCHANGED <<unsealKeys, shard>>
                      ELSE IF ~d.ok
                      THEN Finish(p, "err") /\ UNCHANGED <<unsealKeys, shard>>
                      ELSE IF UnsealShares(d.resp) = <<>>
                      THEN Finish(p, "ok") /\ UNCHANGED <<unsealKeys, shard>>
                      ELSE /\ unsealKeys' = [unsealKeys EXCEPT ![p] = UnsealShares(d.resp)]
                           /\ shard' = [shard EXCEPT ![p] = 1]
                           /\ Continue(p, "shard")
    /\ UNCHANGED <<config, vault, secret, healthResponse, secretString, history>>

\* the error of an unseal call dropped, the loop goes on with the next share
ShardFailedNever(ok, r) == FALSE

\* unseal: if err != nil { return errors.Wrapf(err, "unseal shard %d", i) }
ShardFailed(ok, r) == ~ok \/ r.err

\* unseal: one pass of the loop over initResponse.KeysB64
UnsealShard(p) ==
    /\ pc[p] = "shard"
    /\ LET k == unsealKeys[p][shard[p]]
           r == VaultUnseal(vault[p], k)
       IN  \E ok \in BOOLEAN :
              LET done     == ok /\ ~r.err
                  progress == IF done THEN r.progress ELSE shard[p]
              IN
              IF ShardFailed(ok, r)
              THEN /\ calls' = [calls EXCEPT ![p] =
                         Append(@, Call("UnsealShard", "error", <<k>>, NoValue, 0, ZeroInitResponse))]
                   /\ vault' = [vault EXCEPT ![p] = IF ok THEN r.vault ELSE @]
                   /\ unsealKeys' = [unsealKeys EXCEPT ![p] = <<>>]
                   /\ shard' = [shard EXCEPT ![p] = 0]
                   /\ Finish(p, "err")
              ELSE /\ calls' = [calls EXCEPT ![p] =
                         Append(@, Call("UnsealShard", IF done THEN "ok" ELSE "error",
                                        <<k>>, NoValue, progress, ZeroInitResponse))]
                   /\ vault' = [vault EXCEPT ![p] = IF ok THEN r.vault ELSE @]
                   /\ IF UnsealDone(progress) \/ shard[p] = Len(unsealKeys[p])
                      THEN /\ unsealKeys' = [unsealKeys EXCEPT ![p] = <<>>]
                           /\ shard' = [shard EXCEPT ![p] = 0]
                           /\ Finish(p, "ok")
                      ELSE /\ shard' = [shard EXCEPT ![p] = @ + 1]
                           /\ UNCHANGED <<unsealKeys, pc, outcome>>
    /\ UNCHANGED <<config, secret, healthResponse, secretString, history>>

\* an operator (or a restart of the server) seals an unsealed server again
Reseal(p) ==
    /\ vault[p].initialized /\ ~vault[p].sealed
    /\ vault' = [vault EXCEPT ![p] = [@ EXCEPT !.sealed = TRUE]]
    /\ UNCHANGED <<config, secret, pc, healthResponse, secretString, unsealKeys, shard,
                   calls, outcome, history>>

Next ==
    \E p \in Procs :
       \/ CheckSecretExistence(p)
       \/ Health(p)
       \/ Initialize(p)
       \/ UpdateSecret(p)
       \/ JoinCluster(p)
       \/ GetSecretValue(p)
       \/ UnsealShard(p)
       \/ Reseal(p)

Spec == Init /\ [][Next]_vars

(***************************************************************************)
(* The same program under fair scheduling: the ticker keeps firing and     *)
(* every kind of call that can succeed does succeed in the end             *)
(***************************************************************************)
LastCall(p) == calls[p][Len(calls[p])]

HealthOk(p) == Health(p) /\ LastCall(p)'.res = "ok"
PutOk(p) == UpdateSecret(p) /\ LastCall(p)'.res = "ok"
GetOk(p) == GetSecretValue(p) /\ LastCall(p)'.res = "ok"
\* the call that submits the i-th stored share
ShardOk(p, i) == UnsealShard(p) /\ shard[p] = i /\ LastCall(p)'.res = "ok"

\* any step of process p itself
ProcStep(p) ==
    \/ CheckSecretExistence(p) \/ Health(p) \/ Initialize(p) \/ UpdateSecret(p)
    \/ JoinCluster(p) \/ GetSecretValue(p) \/ UnsealShard(p)

\* a running process goes on to its next statement; a call that is made again
\* and again, and can succeed, succeeds in the end
Fairness ==
    \A p \in Procs :
       /\ WF_vars(ProcStep(p))
       /\ WF_vars(HealthOk(p))
       /\ WF_vars(PutOk(p))
       /\ SF_vars(GetOk(p))
       /\ \A i \in 1..SecretThreshold : SF_vars(ShardOk(p, i))

\* the role holds every permission of the example policy and the TLS files
\* of the first configuration are in place
LiveInit ==
    /\ Init
    /\ perms = [describe |-> TRUE, get |-> TRUE, put |-> TRUE]
    /\ tlsOpts = << <<AtChar, 102>>, <<107>>, <<>> >>

LiveSpec == LiveInit /\ [][Next]_vars /\ Fairness

\* the whole program, with no more assumed than that an upload which can
\* succeed is not failed forever
PutSpec == Init /\ [][Next]_vars /\ \A p \in Procs : WF_vars(PutOk(p))

(***************************************************************************)
(* joinRaftCluster over every value of the three TLS options               *)
(***************************************************************************)
\* the option values tried: strings of '@', 'f' and 'h'
RawChars == {AtChar, 102, 104}
RawStrings == UNION {[1..n -> RawChars] : n \in 0..MaxRawLen}

\* the second pod is about to join the first one, which is up and unsealed
JoinInit ==
    /\ hostname = [p \in Procs |-> IF p = "a" THEN PodName(0) ELSE PodName(1)]
    /\ perms = [describe |-> TRUE, get |-> TRUE, put |-> TRUE]
    /\ tlsOpts \in RawStrings \X RawStrings \X RawStrings
    /\ vault = [p \in Procs |-> IF p = "a"
                                 THEN [SealedIn(ServerOf("a")) EXCEPT !.sealed = FALSE]
                                 ELSE Uninitialized]
    /\ secret = Marshal(NewInitResponse(ServerOf(LeaderProc), SecretShares))
    /\ pc = [p \in Procs |-> IF p = "a" THEN "loop" ELSE "join"]
    /\ healthResponse = [p \in Procs |-> IF p = "a" THEN NoSnapshot
                                          ELSE [initialized |-> FALSE, sealed |-> TRUE, taken |-> TRUE]]
    /\ secretString = [p \in Procs |-> NoValue]
    /\ unsealKeys = [p \in Procs |-> <<>>]
    /\ shard = [p \in Procs |-> 0]
    /\ calls = [p \in Procs |-> IF p = "a" THEN <<Plain("DescribeSecret", "ok")>>
                                 ELSE <<Plain("Health", "ok")>>]
    /\ outcome = [p \in Procs |-> "none"]
    /\ initializers = {}
    /\ firstPut = NoValue
    /\ stored = {}

JoinNext == JoinCluster("b")

JoinSpec == JoinInit /\ [][JoinNext]_vars

(***************************************************************************)
(* Vocabulary of the properties                                            *)
(***************************************************************************)
Issued(p, op) == \E i \in DOMAIN calls[p] : calls[p][i].op = op
Succeeded(p, op) == \E i \in DOMAIN calls[p] : calls[p][i].op = op /\ calls[p][i].res = "ok"
Snapshot(p) == healthResponse[p]

\* the unseal calls of the cycle, in the order issued
Shards(p) == SelectSeq(calls[p], LAMBDA c : c.op = "UnsealShard")

\* the value the cycle's GetSecretValue returned
Fetched(p) ==
    LET i == CHOOSE i \in DOMAIN calls[p] : calls[p][i].op = "GetSecretValue" /\ calls[p][i].res = "ok"
    IN  calls[p][i].val

\* the decimal digit a pod name ends in
TrailingDigit(host) == CHOOSE d \in 0..9 : host[Len(host)] = ZeroChar + d
EndsInDigit(host) == Len(host) > 0 /\ \E d \in 0..9 : host[Len(host)] = ZeroChar + d

(***************************************************************************)
(* C1..C10                                                                 *)
(***************************************************************************)
\* C1: a cycle whose snapshot is initialized and unsealed issues the health
\* read and nothing else (no Initialize, JoinCluster, UnsealShard, UpdateSecret
\* or GetSecretValue), and ends; this holds for every such cycle of a run.
C1_SteadyStateIssuesNoCall ==
    \A p \in Procs :
       (Snapshot(p).taken /\ Snapshot(p).initialized /\ ~Snapshot(p).sealed)
          => /\ calls[p] = <<Plain("Health", "ok")>>
             /\ pc[p] = "loop" /\ outcome[p] = "ok"

C1_Witness ==
    \E p \in Procs :
       /\ Snapshot(p).taken /\ Snapshot(p).initialized /\ ~Snapshot(p).sealed
       /\ outcome[p] = "ok" /\ Len(calls[p]) = 1

\* C2: in a cycle whose snapshot is uninitialized, a pod whose name ends in 0
\* issues Initialize (once the cycle is past that step) and never JoinCluster,
\* and a pod whose name ends in a digit above 0 never issues Initialize and
\* has issued JoinCluster when the cycle ends; a cycle whose snapshot is
\* initialized issues neither.
C2_RoleDecidesBootstrapCall ==
    \A p \in Procs :
       Snapshot(p).taken =>
          /\ Snapshot(p).initialized => ~Issued(p, "Initialize") /\ ~Issued(p, "JoinCluster")
          /\ (~Snapshot(p).initialized /\ EndsInDigit(hostname[p])) =>
                /\ TrailingDigit(hostname[p]) = 0 =>
                      /\ ~Issued(p, "JoinCluster")
                      /\ pc[p] # "init" => Issued(p, "Initialize")
                /\ TrailingDigit(hostname[p]) > 0 =>
                      /\ ~Issued(p, "Initialize")
                      /\ pc[p] \notin {"join", "crashed"} => Issued(p, "JoinCluster")

C2_Witness ==
    /\ \E p \in Procs : /\ Snapshot(p).taken /\ ~Snapshot(p).initialized
                        /\ EndsInDigit(hostname[p]) /\ TrailingDigit(hostname[p]) = 0
                        /\ Issued(p, "Initialize")
    /\ \E p \in Procs : /\ Snapshot(p).taken /\ ~Snapshot(p).initialized
                        /\ EndsInDigit(hostname[p]) /\ TrailingDigit(hostname[p]) > 0
                        /\ Issued(p, "JoinCluster")

\* C3: a cycle in which the init call and the upload of its response both
\* succeeded goes on to the unseal step (whose first call is GetSecretValue)
\* in that same cycle.
C3_InitializeThenUnsealInSameCycle ==
    \A p \in Procs :
       (Succeeded(p, "Initialize") /\ Succeeded(p, "UpdateSecret"))
          => pc[p] = "get" \/ Issued(p, "GetSecretValue")

C3_Witness ==
    \E p \in Procs :
       /\ Succeeded(p, "Initialize") /\ Succeeded(p, "UpdateSecret")
       /\ Issued(p, "GetSecretValue")

\* C4 as stated: a role that lacks the get or the put permission never gets
\* past the startup check, so none of its processes enters the poll loop.
C4_MissingGetOrPutStopsStartup ==
    (~perms.get \/ ~perms.put) => \A p \in Procs : pc[p] \in {"start", "exited"}

\* C4 amended: the startup check is DescribeSecret alone.  A process whose
\* DescribeSecret fails (always so without the describe permission) exits
\* having issued no other call; the get and put permissions are not looked at.
C4_FailedDescribeStopsStartup ==
    \A p \in Procs :
       /\ ~perms.describe => pc[p] \in {"start", "exited"}
       /\ (calls[p] # <<>> /\ calls[p][1] = Plain("DescribeSecret", "error"))
             => pc[p] = "exited" /\ Len(calls[p]) = 1
       /\ pc[p] \in {"start", "exited"}
             => /\ ~Snapshot(p).taken /\ p \notin initializers
                /\ \A i \in DOMAIN calls[p] : calls[p][i].op = "DescribeSecret"

C4_Witness ==
    /\ ~perms.describe
    /\ \E p \in Procs : pc[p] = "exited" /\ calls[p] = <<Plain("DescribeSecret", "error")>>

\* C5 as stated: once a cycle's init call has succeeded and the cycle is past
\* the upload loop, the secret holds the bundle that init call returned.
C5_SecretHoldsBundleAfterUpload ==
    \A p \in Procs :
       (Succeeded(p, "Initialize") /\ pc[p] # "put")
          => secret = Marshal(InitResponseOf(calls[p]))

\* C6: the shares an unseal attempt submits are the stored base64 shares in
\* stored order from the first one; a share is submitted only after responses
\* that all reported progress above 0; and an attempt that ends without error
\* on a server of the cluster whose five shares are stored submits exactly
\* three (the threshold).
C6_SharesInOrderUntilUnsealed ==
    \A p \in Procs :
       Shards(p) # <<>> =>
          LET sub    == Shards(p)
              keys   == Unmarshal(Fetched(p)).resp.KeysB64
          IN  /\ Len(sub) <= Len(keys)
              /\ \A j \in DOMAIN sub : sub[j].strs = <<keys[j]>>
              /\ \A j \in DOMAIN sub : j < Len(sub) => sub[j].res = "ok" /\ sub[j].n > 0
              /\ ( /\ pc[p] = "loop" /\ outcome[p] = "ok"
                   /\ Len(keys) = SecretShares
                   /\ \A j \in DOMAIN keys : IsShare(keys[j])
                                              /\ ShareBytes(keys[j]) \in ValidShares(vault[p].cluster) )
                    => Len(sub) = SecretThreshold /\ sub[Len(sub)].n = 0

C6_Witness ==
    \E p \in Procs :
       /\ pc[p] = "loop" /\ outcome[p] = "ok"
       /\ Len(Shards(p)) = 3 /\ Shards(p)[3].n = 0
       /\ Len(Unmarshal(Fetched(p)).resp.KeysB64) = 5

\* C7: when the value an unseal attempt fetched is the string uploaded for an
\* init response, the shares it submits are, one by one and in order, the
\* first base64 key shares of that init response.
C7_StoredBundleRoundTrip ==
    \A p \in Procs : \A b \in stored :
       (Succeeded(p, "GetSecretValue") /\ Fetched(p) = b.text) =>
          /\ pc[p] = "shard" => unsealKeys[p] = b.resp.KeysB64
          /\ Len(Shards(p)) <= Len(b.resp.KeysB64)
          /\ \A j \in DOMAIN Shards(p) : Shards(p)[j].strs = <<b.resp.KeysB64[j]>>

C7_Witness ==
    \E p, q \in Procs : \E b \in stored :
       /\ p # q /\ q \in initializers
       /\ Succeeded(p, "GetSecretValue") /\ Fetched(p) = b.text
       /\ Len(Shards(p)) = SecretThreshold
       /\ Shards(p)[3].strs = <<KeyB64(ServerOf(q), 3)>>

\* C8: a join response that says not joined is an error of the cycle, and a
\* failed init call or a failed join ends the cycle with that call: it is the
\* cycle's last call, issued once, and the cycle returns an error.
C8_FailedBootstrapEndsCycle ==
    \A p \in Procs : \A i \in DOMAIN calls[p] :
       (calls[p][i].op \in {"Initialize", "JoinCluster"} /\ calls[p][i].res # "ok")
          => /\ i = Len(calls[p])
             /\ \A j \in DOMAIN calls[p] : j < i => calls[p][j].op = "Health"
             /\ pc[p] = "loop" /\ outcome[p] = "err"

C8_Witness ==
    \E p \in Procs :
       /\ Len(calls[p]) = 2 /\ calls[p][2].op = "JoinCluster" /\ calls[p][2].res = "notJoined"
       /\ outcome[p] = "err"

\* C9 as stated: of the pods vault-0 .. vault-(N-1), only vault-0 ever issues
\* the init call, so at most one process does.
C9_OnlyFirstPodInitializes ==
    /\ Cardinality(initializers) <= 1
    /\ \A p \in initializers : hostname[p] = PodName(0)

\* C10 as stated: after the first successful upload the secret keeps the
\* value of that upload.
C10_SecretNeverChangesAfterFirstUpload ==
    firstPut # NoValue => secret = firstPut

(***************************************************************************)
(* C11..C20                                                                *)
(***************************************************************************)
\* what the README says an option value stands for
StartsWithAt(v) == Len(v) > 0 /\ v[1] = AtChar
OptionValue(v) == IF StartsWithAt(v) THEN FileContents(SubSeq(v, 2, Len(v))) ELSE v

\* the join request a cycle sent
JoinRequest(p) ==
    LET i == CHOOSE i \in DOMAIN calls[p] : calls[p][i].op = "JoinCluster"
    IN  calls[p][i].strs

\* C11: each of the three TLS fields of a join request that was sent holds,
\* for an option value that starts with '@', the contents of the file named by
\* the rest of the value, and otherwise (the empty value included) the option
\* value itself; each field depends on its own option only.
C11_TlsOptionsResolved ==
    \A p \in Procs :
       Issued(p, "JoinCluster") =>
          /\ Len(JoinRequest(p)) = 3
          /\ \A i \in 1..3 :
                /\ JoinRequest(p)[i] = OptionValue(tlsOpts[i])
                /\ StartsWithAt(tlsOpts[i]) => FileExists(Tail(tlsOpts[i]))

C11_Witness ==
    \E p \in Procs :
       /\ Issued(p, "JoinCluster")
       /\ tlsOpts = << <<AtChar, 104>>, <<102, AtChar>>, <<>> >>
       /\ JoinRequest(p) = << <<100>>, <<102, AtChar>>, <<>> >>

\* the process is in its poll loop: past the startup check and not ended
InLoop(p) == pc[p] \notin {"start", "exited", "crashed"}

\* the secret decodes to a bundle with at least the threshold of base64
\* shares of the cluster of p's server
HoldsSharesFor(p) ==
    LET d == Unmarshal(secret)
    IN  /\ d.ok
        /\ Cardinality({ShareBytes(k) : k \in {d.resp.KeysB64[j] : j \in DOMAIN d.resp.KeysB64}}
                          \cap ValidShares(vault[p].cluster)) >= SecretThreshold

NeedsUnseal(p) ==
    /\ InLoop(p) /\ perms.get
    /\ vault[p].initialized /\ vault[p].sealed
    /\ HoldsSharesFor(p)

\* C12 as stated: whenever a server is initialized and sealed, and the secret
\* holds a bundle with at least the threshold of its shares, the server
\* becomes unsealed later on (under fair scheduling, for a process in its poll
\* loop whose role may read the secret).
C12_SealedServerIsUnsealedAgain ==
    \A p \in Procs : NeedsUnseal(p) ~> ~vault[p].sealed

\* C13: a cycle whose health read failed consists of that one call: no other
\* remote call is issued in it, it returns an error to main, and the process
\* is back waiting for the next tick (it has not exited); the first cycle
\* after startup is such a cycle like any other.
C13_FailedHealthEndsCycle ==
    \A p \in Procs :
       (calls[p] # <<>> /\ calls[p][1] = Plain("Health", "error"))
          => /\ Len(calls[p]) = 1
             /\ pc[p] = "loop" /\ outcome[p] = "err"
             /\ ~Snapshot(p).taken

C13_Witness ==
    \E p \in Procs :
       /\ calls[p] = <<Plain("Health", "error")>>
       /\ pc[p] = "loop" /\ ~vault[p].initialized

\* the decoder rejected the string the cycle fetched
DecodeFailed(p) ==
    /\ Succeeded(p, "GetSecretValue")
    /\ Fetched(p).kind # "binary" /\ ~Unmarshal(Fetched(p)).ok

\* C14: a cycle whose GetSecretValue failed, or whose fetched string the
\* decoder rejected, issues no UnsealShard; a failed UnsealShard is the last
\* call of its cycle, so no later share is submitted; in each case the cycle
\* returns an error and the process waits for the next tick; and no position
\* is kept between cycles: every cycle that submits shares has fetched the
\* secret itself and starts with the first stored share.
C14_UnsealFailureEndsAttempt ==
    \A p \in Procs :
       /\ (Issued(p, "GetSecretValue") /\ ~Succeeded(p, "GetSecretValue")) \/ DecodeFailed(p)
             => /\ Shards(p) = <<>>
                /\ LastCall(p).op = "GetSecretValue"
                /\ pc[p] = "loop" /\ outcome[p] = "err"
       /\ \A i \in DOMAIN calls[p] :
             (calls[p][i].op = "UnsealShard" /\ calls[p][i].res = "error")
                => i = Len(calls[p]) /\ pc[p] = "loop" /\ outcome[p] = "err"
       /\ pc[p] = "loop" => unsealKeys[p] = <<>> /\ shard[p] = 0
       /\ Shards(p) # <<>>
             => /\ Succeeded(p, "GetSecretValue")
                /\ Shards(p)[1].strs = <<Unmarshal(Fetched(p)).resp.KeysB64[1]>>

\* a cycle submits the first share again to a server that holds two shares
\* of an attempt that failed on its third
C14_Witness ==
    \E p \in Procs :
       /\ Len(Shards(p)) = 1
       /\ Shards(p)[1].strs = <<KeyB64(ServerOf(p), 1)>>
       /\ Shards(p)[1].res = "ok" /\ Shards(p)[1].n = 2

\* C15 as stated: no failure inside the poll loop ends the process, whatever
\* the hostname, the TLS options or the secret value: a process that entered
\* the loop is never ended by a panic.
C15_NoFailureEndsProcessInLoop ==
    \A p \in Procs : pc[p] # "crashed"

\* the uploads of the cycle, in the order issued
Puts(p) == SelectSeq(calls[p], LAMBDA c : c.op = "UpdateSecret")

\* the upload step as the call log shows it: every upload carries the string
\* marshalled from the cycle's init response, every upload but a last
\* successful one failed, nothing but uploads is issued until one succeeds,
\* and a failed upload leaves the process in the step
UploadsRepeatUntilSuccess(p) ==
    /\ \A j \in DOMAIN Puts(p) :
          /\ Succeeded(p, "Initialize")
          /\ Puts(p)[j].val = Marshal(InitResponseOf(calls[p]))
          /\ j < Len(Puts(p)) => Puts(p)[j].res = "error"
    /\ \A i \in DOMAIN calls[p] :
          (calls[p][i].op = "UpdateSecret" /\ calls[p][i].res = "error")
             => /\ i < Len(calls[p]) => calls[p][i + 1].op = "UpdateSecret"
                /\ i = Len(calls[p]) => pc[p] = "put"
    /\ Succeeded(p, "UpdateSecret") => Len(Puts(p)) = FailedPuts(calls[p]) + 1
    /\ pc[p] = "put" <=> (Succeeded(p, "Initialize") /\ ~Succeeded(p, "UpdateSecret"))

\* the step is left only by a successful upload, with the secret holding the
\* uploaded string
UploadEndsInSuccess(p) ==
    (pc[p] = "put" /\ pc'[p] # "put")
       => /\ LastCall(p)'.op = "UpdateSecret" /\ LastCall(p)'.res = "ok"
          /\ secret' = secretString[p]
          /\ outcome'[p] # "err"

\* C16: after a successful init call the process uploads the same string
\* again and again until an upload succeeds: k failures are followed by the
\* k+1-th upload, no other call comes between, the step never returns an
\* error, it is left only by the successful upload with the secret holding
\* the bundle, and when the role may write the secret and uploads are not
\* failed forever the step is left.
C16_UploadRetriedUntilSuccess ==
    /\ [](\A p \in Procs : UploadsRepeatUntilSuccess(p))
    /\ [][\A p \in Procs : UploadEndsInSuccess(p)]_vars
    /\ \A p \in Procs : (pc[p] = "put" /\ perms.put) ~> pc[p] # "put"

C16_Witness ==
    \E p \in Procs :
       /\ FailedPuts(calls[p]) = 2 /\ Len(Puts(p)) = 3
       /\ Succeeded(p, "UpdateSecret")
       /\ secret = Puts(p)[3].val

\* how many calls of an operation the cycle issued
Count(p, op) == Len(SelectSeq(calls[p], LAMBDA c : c.op = op))

\* the log of a cycle: the health read first and once, at most one init call,
\* join and fetch, and the j-th unseal call submits the j-th stored share
OneCallOfEachKind(p) ==
    /\ calls[p][1].op = "Health" /\ Count(p, "Health") = 1
    /\ Count(p, "DescribeSecret") = 0
    /\ Count(p, "Initialize") <= 1
    /\ Count(p, "JoinCluster") <= 1
    /\ Count(p, "GetSecretValue") <= 1
    /\ Shards(p) # <<>> =>
          /\ Len(Shards(p)) <= Len(Unmarshal(Fetched(p)).resp.KeysB64)
          /\ \A j \in DOMAIN Shards(p) :
                Shards(p)[j].strs = <<Unmarshal(Fetched(p)).resp.KeysB64[j]>>

\* a health read starts a cycle only when the cycle before has returned
CycleStartsAfterReturn(p) ==
    (calls'[p] # calls[p] /\ LastCall(p)'.op = "Health") => pc[p] = "loop"

\* C17: a process past the startup check has issued nothing yet or is in (or
\* between) cycles that each consist of exactly one health read, at most one
\* init call, at most one join, at most one fetch and at most one submission
\* of each stored share; only uploads repeat within a cycle; and a cycle
\* starts only after the one before has returned.
C17_OneAttemptPerCallPerCycle ==
    /\ [](\A p \in Procs :
            pc[p] \notin {"start", "exited"}
               => calls[p] = <<Plain("DescribeSecret", "ok")>> \/ OneCallOfEachKind(p))
    /\ [][\A p \in Procs : CycleStartsAfterReturn(p)]_vars

C17_Witness ==
    \E p \in Procs :
       /\ Count(p, "Health") = 1 /\ Count(p, "Initialize") = 1
       /\ Count(p, "UpdateSecret") = 3 /\ Count(p, "GetSecretValue") = 1
       /\ Len(Shards(p)) = SecretThreshold /\ pc[p] = "loop"

\* the unseal step of the cycle returned nil
UnsealReturnedSuccess(p) ==
    /\ Issued(p, "GetSecretValue")
    /\ pc[p] = "loop" /\ outcome[p] = "ok"

\* C18 as stated: whenever the unseal step returns success, it has submitted
\* a share and the response to the last share submitted reported progress 0
\* or less, whatever bundle is stored.
C18_UnsealSuccessMeansUnsealed ==
    \A p \in Procs :
       UnsealReturnedSuccess(p)
          => /\ Shards(p) # <<>>
             /\ Shards(p)[Len(Shards(p))].res = "ok"
             /\ Shards(p)[Len(Shards(p))].n <= 0

\* a step of the cycle before the unseal step failed
BootstrapFailed(p) ==
    \E i \in DOMAIN calls[p] :
       /\ calls[p][i].op \in {"Health", "Initialize", "JoinCluster"}
       /\ calls[p][i].res # "ok"

\* C19: the cycle decides on the unseal step from its snapshot: it issues
\* GetSecretValue or UnsealShard only if the snapshot said sealed, and a
\* cycle whose snapshot said sealed and that has returned with no failed
\* health read, init call or join has run the unseal step.
C19_UnsealDecidedFromSnapshot ==
    \A p \in Procs :
       /\ (Issued(p, "GetSecretValue") \/ Issued(p, "UnsealShard") \/ pc[p] \in {"get", "shard"})
             => Snapshot(p).taken /\ Snapshot(p).sealed
       /\ (Snapshot(p).taken /\ Snapshot(p).sealed /\ pc[p] = "loop" /\ ~BootstrapFailed(p))
             => Issued(p, "GetSecretValue")

\* a follower that joined runs the unseal step in the cycle of its join, on
\* the snapshot taken before the join
C19_Witness ==
    \E p \in Procs :
       /\ Snapshot(p).taken /\ Snapshot(p).sealed /\ ~Snapshot(p).initialized
       /\ Succeeded(p, "JoinCluster") /\ Issued(p, "GetSecretValue")
       /\ pc[p] = "loop"

\* every upload of the cycle comes after the cycle's successful init call,
\* made by a pod whose name ends in 0 under a snapshot that said
\* uninitialized, and carries the string marshalled from that call's response
UploadFollowsInitialize(p) ==
    \A i \in DOMAIN calls[p] :
       calls[p][i].op = "UpdateSecret" =>
          /\ \E j \in 1..(i - 1) :
                /\ calls[p][j].op = "Initialize" /\ calls[p][j].res = "ok"
                /\ calls[p][i].val = Marshal(calls[p][j].resp)
          /\ EndsInDigit(hostname[p]) /\ TrailingDigit(hostname[p]) = 0
          /\ Snapshot(p).taken /\ ~Snapshot(p).initialized

\* the secret changes only in the step of a successful upload, to the string
\* uploaded
SecretWrittenByUploadOnly ==
    secret' # secret =>
       \E p \in Procs :
          /\ Len(calls'[p]) = Len(calls[p]) + 1
          /\ SubSeq(calls'[p], 1, Len(calls[p])) = calls[p]
          /\ LastCall(p)'.op = "UpdateSecret" /\ LastCall(p)'.res = "ok"
          /\ LastCall(p)'.val = secret'

\* C20: the secret is written on the initialize path only: every upload is
\* preceded in its cycle by a successful init call of a pod that resolves to
\* ordinal 0 and saw an uninitialized snapshot, and carries that call's
\* bundle; and the value of the secret changes in no other step (startup
\* check, health read, failed init call, join, fetch, unseal call, reseal).
C20_SecretWrittenOnInitializePathOnly ==
    /\ [](\A p \in Procs : UploadFollowsInitialize(p))
    /\ [][SecretWrittenByUploadOnly]_vars

C20_Witness ==
    \E p \in Procs :
       /\ Succeeded(p, "Initialize") /\ Succeeded(p, "UpdateSecret")
       /\ secret = Marshal(InitResponseOf(calls[p]))
       /\ secret # firstPut

====
